---- MODULE Spec2Model ----
(***************************************************************************)
(* Model of the repoflow_repository resource of terraform-provider-repoflow *)
(* (internal/provider/repository_resource.go, concatenated in               *)
(* src/internal/provider/workspace_resource.go from line 204 on).           *)
(*                                                                         *)
(* Every lifecycle handler (Create, Read, Update, Delete, ImportState) runs *)
(* to completion on the calling goroutine, so each handler is one action.   *)
(* The remote service behind repoflow.Client is the environment: whether a  *)
(* call fails is chosen nondeterministically.                               *)
(***************************************************************************)
EXTENDS Integers, Sequences, FiniteSets, TLC

VARIABLES
    remote,     \* the repositories held by the remote service (set of repoflow.Repository)
    nextId,     \* number of the next repository id the remote service assigns
    tfstate,    \* the state record Terraform tracks for the resource (NoState when none)
    last        \* the record of the most recent handler invocation

vars == <<remote, nextId, tfstate, last>>

(***************************************************************************)
(* Bounds                                                                  *)
(***************************************************************************)
\* At most this many repositories are ever created on the remote side.
MaxRepos == 1

(***************************************************************************)
(* Framework values (types.String, types.Int64, types.Bool, types.List):   *)
(* a value is null, unknown or known; ValueString()/ValueBool() of a null   *)
(* or unknown value is the zero value.                                      *)
(***************************************************************************)
StringNull == [state |-> "null", value |-> ""]
StringUnknown == [state |-> "unknown", value |-> ""]
StringValue(s) == [state |-> "known", value |-> s]
Int64Null == [state |-> "null", value |-> 0]
Int64Unknown == [state |-> "unknown", value |-> 0]
Int64Value(i) == [state |-> "known", value |-> i]
BoolValue(b) == [state |-> "known", value |-> b]
ListNull == [state |-> "null", value |-> <<>>]
ListUnknown == [state |-> "unknown", value |-> <<>>]
ListValue(ids) == [state |-> "known", value |-> ids]

IsNull(v) == v.state = "null"
IsUnknown(v) == v.state = "unknown"
ValueString(v) == IF v.state = "known" THEN v.value ELSE ""
ValueBool(v) == IF v.state = "known" THEN v.value ELSE FALSE
ValueInt64(v) == IF v.state = "known" THEN v.value ELSE 0

\* Go pointers and slices: nil, or a value.
Nil == [nil |-> TRUE]
Ptr(v) == [nil |-> FALSE, val |-> v]

StringPointerValue(p) == IF p.nil THEN StringNull ELSE StringValue(p.val)
Int64PointerValue(p) == IF p.nil THEN Int64Null ELSE Int64Value(p.val)

\* strings.Join with a separator other than the one ImportState splits at
JoinColon(a, b) == a \o ":" \o b

\* strings.Join([]string{a, b}, "/")
Join(a, b) == a \o "/" \o b

(***************************************************************************)
(* factory package                                                         *)
(***************************************************************************)
IntPtrToInt64Ptr(i) == IF i.nil THEN Nil ELSE Ptr(i.val)

\* Int64ToPtr that takes 0 for "not set"
Int64ToPtrZeroNil(v) ==
    IF IsNull(v) \/ IsUnknown(v) \/ ValueInt64(v) = 0 THEN Nil ELSE Ptr(ValueInt64(v))

Int64ToPtr(v) == IF IsNull(v) \/ IsUnknown(v) THEN Nil ELSE Ptr(ValueInt64(v))

(***************************************************************************)
(* The remote service (repoflow.Client): one workspace, and the             *)
(* repositories created in it.  A workspace is addressed by name or by id.  *)
(***************************************************************************)
Workspaces == {[Id |-> "w1", Name |-> "example"]}

\* the workspace a reference (name or id) designates, as a set of 0 or 1 workspaces
WorkspaceOf(ref) == {w \in Workspaces : ref = w.Id \/ ref = w.Name}

Digits == <<"1", "2", "3", "4", "5", "6", "7", "8", "9">>
RepoId(n) == "r" \o Digits[n]

\* client.GetWorkspace(workspace): fails when the service fails or knows no such workspace
GetWorkspace(workspace, fail) ==
    IF fail \/ WorkspaceOf(workspace) = {}
    THEN [err |-> TRUE, ws |-> [Id |-> "", Name |-> ""]]
    ELSE [err |-> FALSE, ws |-> CHOOSE w \in WorkspaceOf(workspace) : TRUE]

NoRepository ==
    [Id |-> "", Name |-> "", PackageType |-> "", RepositoryType |-> "",
     RemoteRepositoryUrl |-> Nil, RemoteRepositoryUsername |-> Nil,
     RemoteRepositoryPassword |-> Nil, IsRemoteCacheEnabled |-> FALSE,
     FileCacheTimeTillRevalidation |-> Nil, MetadataCacheTimeTillRevalidation |-> Nil,
     UploadLocalRepositoryId |-> Nil, ChildRepositories |-> Nil]

OptString(s) == IF s = "" THEN Nil ELSE Ptr(s)

\* the repository the service stores for a create request
LocalRepository(id, opts) ==
    [NoRepository EXCEPT !.Id = id, !.Name = opts.Name, !.PackageType = opts.PackageType,
                         !.RepositoryType = "local"]

RemoteRepository(id, opts) ==
    [NoRepository EXCEPT !.Id = id, !.Name = opts.Name, !.PackageType = opts.PackageType,
                         !.RepositoryType = "remote",
                         !.RemoteRepositoryUrl = Ptr(opts.RemoteRepositoryUrl),
                         !.RemoteRepositoryUsername = OptString(opts.RemoteRepositoryUsername),
                         !.RemoteRepositoryPassword = OptString(opts.RemoteRepositoryPassword),
                         !.IsRemoteCacheEnabled = opts.IsRemoteCacheEnabled,
                         !.FileCacheTimeTillRevalidation = opts.FileCacheTimeTillRevalidation,
                         !.MetadataCacheTimeTillRevalidation = opts.MetadataCacheTimeTillRevalidation]

VirtualRepository(id, opts) ==
    [NoRepository EXCEPT !.Id = id, !.Name = opts.Name, !.PackageType = opts.PackageType,
                         !.RepositoryType = "virtual",
                         !.UploadLocalRepositoryId = OptString(opts.UploadLocalRepositoryId),
                         !.ChildRepositories =
                             Ptr([i \in 1..Len(opts.ChildRepositoryIds) |->
                                     [Id |-> opts.ChildRepositoryIds[i]]])]

\* client.Create{Local,Remote,Virtual}Repository(workspace, opts): the service creates
\* `stored` unless it fails, knows no such workspace or is full
CreateRepository(workspace, stored, fail, nid) ==
    IF fail \/ WorkspaceOf(workspace) = {} \/ nid > MaxRepos
    THEN [err |-> TRUE, rp |-> Nil]
    ELSE [err |-> FALSE, rp |-> Ptr(stored)]

\* client.GetRepository(workspaceId, repositoryId)
GetRepository(workspaceId, repositoryId, fail, rem) ==
    LET found == {r \in rem : r.Id = repositoryId}
    IN  IF fail THEN [err |-> "failure", rp |-> Nil]
        ELSE IF WorkspaceOf(workspaceId) = {} \/ found = {}
             THEN [err |-> "notfound", rp |-> Nil]
             ELSE [err |-> "", rp |-> Ptr(CHOOSE r \in found : TRUE)]

\* client.DeleteRepository(workspaceId, repositoryId)
DeleteRepository(workspaceId, repositoryId, fail, rem) ==
    LET found == {r \in rem : r.Id = repositoryId}
    IN  IF fail THEN [err |-> "failure", removed |-> {}]
        ELSE IF WorkspaceOf(workspaceId) = {} \/ found = {}
             THEN [err |-> "notfound", removed |-> {}]
             ELSE [err |-> "", removed |-> found]

(***************************************************************************)
(* RepositoryResourceModel and mapResponseToModel                          *)
(***************************************************************************)
\* var data RepositoryResourceModel: every attribute null
ZeroModel ==
    [Name |-> StringNull, Id |-> StringNull, WorkspaceId |-> StringNull,
     PackageType |-> StringNull, RepositoryType |-> StringNull,
     RepositoryId |-> StringNull, RemoteRepositoryUrl |-> StringNull,
     RemoteRepositoryUsername |-> StringNull, RemoteRepositoryPassword |-> StringNull,
     RemoteCacheEnabled |-> [state |-> "null", value |-> FALSE],
     FileCacheTimeTillRevalidation |-> Int64Null,
     MetadataCacheTimeTillRevalidation |-> Int64Null,
     ChildRepositoryIds |-> ListNull, UploadLocalRepositoryId |-> StringNull]

\* the projection with a test of the length in place of the test for nil
ChildIdsOfEmptyIsNull(children) ==
    IF children.nil \/ Len(children.val) = 0 THEN ListNull
    ELSE ListValue([i \in 1..Len(children.val) |-> children.val[i].Id])

\* the projection of rp.ChildRepositories to a list of ids
ChildIdsOf(children) ==
    IF children.nil THEN ListNull
    ELSE ListValue([i \in 1..Len(children.val) |-> children.val[i].Id])

mapResponseToModel(data, rp, workspaceId) ==
    [data EXCEPT
        !.Id = StringValue(Join(workspaceId, rp.Id)),
        !.RepositoryId = StringValue(rp.Id),
        !.WorkspaceId = StringValue(workspaceId),
        !.Name = StringValue(rp.Name),
        !.PackageType = IF rp.RepositoryType # "" THEN StringValue(rp.PackageType) ELSE @,
        !.RepositoryType = IF rp.RepositoryType # "" THEN StringValue(rp.RepositoryType) ELSE @,
        !.RemoteRepositoryUrl = StringPointerValue(rp.RemoteRepositoryUrl),
        !.RemoteRepositoryUsername = StringPointerValue(rp.RemoteRepositoryUsername),
        !.RemoteRepositoryPassword = StringPointerValue(rp.RemoteRepositoryPassword),
        !.RemoteCacheEnabled = BoolValue(rp.IsRemoteCacheEnabled),
        !.FileCacheTimeTillRevalidation =
            Int64PointerValue(IntPtrToInt64Ptr(rp.FileCacheTimeTillRevalidation)),
        !.MetadataCacheTimeTillRevalidation =
            Int64PointerValue(IntPtrToInt64Ptr(rp.MetadataCacheTimeTillRevalidation)),
        !.UploadLocalRepositoryId = StringPointerValue(rp.UploadLocalRepositoryId),
        !.ChildRepositoryIds = ChildIdsOf(rp.ChildRepositories)]

(***************************************************************************)
(* Diagnostics and the record of one handler invocation                    *)
(***************************************************************************)
Diag(summary, detail, err) == [summary |-> summary, detail |-> detail, err |-> err]

HasError(diags) == Len(diags) > 0

Call(fn, workspace, arg) == [fn |-> fn, workspace |-> workspace, arg |-> arg]

CreateCalls == {"CreateLocalRepository", "CreateRemoteRepository", "CreateVirtualRepository"}

\* exit: "returned" when the handler returned, "panicked" when it dereferenced a nil rp
Outcome(calls, diags, exit, stateSet, data, rp) ==
    [calls |-> calls, diags |-> diags, exit |-> exit, stateSet |-> stateSet,
     stateRemoved |-> FALSE, data |-> data, rp |-> rp, logs |-> <<>>]

\* one tflog entry
LogEntry(level, msg, fields) == [level |-> level, msg |-> msg, fields |-> fields]

(***************************************************************************)
(* RepositoryResource.Create                                               *)
(***************************************************************************)
LocalOptions(data) ==
    [Name |-> ValueString(data.Name), PackageType |-> ValueString(data.PackageType)]

RemoteOptions(data) ==
    [Name |-> ValueString(data.Name),
     PackageType |-> ValueString(data.PackageType),
     RemoteRepositoryUrl |-> ValueString(data.RemoteRepositoryUrl),
     RemoteRepositoryUsername |-> ValueString(data.RemoteRepositoryUsername),
     RemoteRepositoryPassword |-> ValueString(data.RemoteRepositoryPassword),
     IsRemoteCacheEnabled |-> ValueBool(data.RemoteCacheEnabled),
     FileCacheTimeTillRevalidation |-> Int64ToPtr(data.FileCacheTimeTillRevalidation),
     MetadataCacheTimeTillRevalidation |-> Int64ToPtr(data.MetadataCacheTimeTillRevalidation)]

VirtualOptions(data, childIds) ==
    [Name |-> ValueString(data.Name),
     PackageType |-> ValueString(data.PackageType),
     ChildRepositoryIds |-> childIds,
     UploadLocalRepositoryId |-> ValueString(data.UploadLocalRepositoryId)]

\* data.ChildRepositoryIds.ElementsAs(ctx, &childIds, false): an unknown list cannot be
\* converted to []string; a null list converts to a nil slice
ElementsAs(list) ==
    IF IsUnknown(list)
    THEN [diags |-> <<Diag("Value Conversion Error", "unhandled unknown value", "")>>,
          elems |-> <<>>]
    ELSE [diags |-> <<>>, elems |-> list.value]

\* the workspace argument of the three create calls
CreateWorkspaceArg(workspace, workspaceId) == workspace

\* lines 510-528 with the failed create call issued a second time
CreateFinishRetry(data, workspaceId, calls, diags, res) ==
    IF res.err
    THEN Outcome(Append(calls, calls[Len(calls)]),
                 Append(diags, Diag("Client Error", "Unable to create repository", "failure")),
                 "returned", FALSE, data, Nil)
    ELSE IF res.rp.nil
    THEN Outcome(calls, diags, "panicked", FALSE, data, Nil)
    ELSE Outcome(calls, diags, "returned", TRUE,
                 mapResponseToModel(data, res.rp.val, workspaceId), res.rp)

\* lines 510-528: after the switch
CreateFinish(data, workspaceId, calls, diags, res) ==
    IF res.err
    THEN Outcome(calls,
                 Append(diags, Diag("Client Error", "Unable to create repository", "failure")),
                 "returned", FALSE, data, Nil)
    ELSE IF res.rp.nil
    THEN \* mapResponseToModel reads rp.Id of a nil rp
         Outcome(calls, diags, "panicked", FALSE, data, Nil)
    ELSE Outcome(calls, diags, "returned", TRUE,
                 mapResponseToModel(data, res.rp.val, workspaceId), res.rp)

\* case "local"
CreateLocalCase(data, workspace, workspaceId, calls, diags, crFail, nid) ==
    LET opts == LocalOptions(data)
        target == CreateWorkspaceArg(workspace, workspaceId)
        res == CreateRepository(target, LocalRepository(RepoId(nid), opts), crFail, nid)
    IN  CreateFinish(data, workspaceId,
                     Append(calls, Call("CreateLocalRepository", target, opts)), diags, res)

\* case "remote" with the url check placed after the create call
CreateRemoteCaseLate(data, workspace, workspaceId, calls, diags, crFail, nid) ==
    LET opts == RemoteOptions(data)
        target == CreateWorkspaceArg(workspace, workspaceId)
        res == CreateRepository(target, RemoteRepository(RepoId(nid), opts), crFail, nid)
        calls1 == Append(calls, Call("CreateRemoteRepository", target, opts))
    IN  IF IsNull(data.RemoteRepositoryUrl)
        THEN Outcome(calls1,
                     Append(diags, Diag("Missing parameter", "remote_repository_url", "")),
                     "returned", FALSE, data, res.rp)
        ELSE CreateFinish(data, workspaceId, calls1, diags, res)

\* case "remote" without the url check
CreateRemoteCaseNoCheck(data, workspace, workspaceId, calls, diags, crFail, nid) ==
    LET opts == RemoteOptions(data)
        target == CreateWorkspaceArg(workspace, workspaceId)
        res == CreateRepository(target, RemoteRepository(RepoId(nid), opts), crFail, nid)
    IN  CreateFinish(data, workspaceId,
                     Append(calls, Call("CreateRemoteRepository", target, opts)), diags, res)

\* case "remote"
CreateRemoteCase(data, workspace, workspaceId, calls, diags, crFail, nid) ==
    IF IsNull(data.RemoteRepositoryUrl)
    THEN Outcome(calls,
                 Append(diags, Diag("Missing parameter", "remote_repository_url", "")),
                 "returned", FALSE, data, Nil)
    ELSE LET opts == RemoteOptions(data)
             target == CreateWorkspaceArg(workspace, workspaceId)
             res == CreateRepository(target, RemoteRepository(RepoId(nid), opts), crFail, nid)
         IN  CreateFinish(data, workspaceId,
                          Append(calls, Call("CreateRemoteRepository", target, opts)),
                          diags, res)

\* case "virtual" without the null check: a null list converts to a nil slice
CreateVirtualCaseNoCheck(data, workspace, workspaceId, calls, diags, crFail, nid) ==
    LET conv == ElementsAs(data.ChildRepositoryIds)
        diags1 == diags \o conv.diags
    IN  IF HasError(diags1)
        THEN Outcome(calls, diags1, "returned", FALSE, data, Nil)
        ELSE LET opts == VirtualOptions(data, conv.elems)
                 target == CreateWorkspaceArg(workspace, workspaceId)
                 res == CreateRepository(target, VirtualRepository(RepoId(nid), opts),
                                         crFail, nid)
             IN  CreateFinish(data, workspaceId,
                              Append(calls, Call("CreateVirtualRepository", target, opts)),
                              diags1, res)

\* case "virtual"
CreateVirtualCase(data, workspace, workspaceId, calls, diags, crFail, nid) ==
    IF IsNull(data.ChildRepositoryIds)
    THEN Outcome(calls,
                 Append(diags, Diag("Missing parameter", "child_repository_ids", "")),
                 "returned", FALSE, data, Nil)
    ELSE LET conv == ElementsAs(data.ChildRepositoryIds)
             diags1 == diags \o conv.diags
         IN  IF HasError(diags1)
             THEN Outcome(calls, diags1, "returned", FALSE, data, Nil)
             ELSE LET opts == VirtualOptions(data, conv.elems)
                      target == CreateWorkspaceArg(workspace, workspaceId)
                      res == CreateRepository(target, VirtualRepository(RepoId(nid), opts),
                                              crFail, nid)
                  IN  CreateFinish(data, workspaceId,
                                   Append(calls, Call("CreateVirtualRepository", target, opts)),
                                   diags1, res)

\* lines 436-440 keeping the reference in place of the id GetWorkspace returned
ResolveWorkspaceKeepRef(workspace, wsFail) ==
    LET r == GetWorkspace(workspace, wsFail)
    IN  [calls |-> <<Call("GetWorkspace", workspace, "")>>,
         diags |-> IF r.err
                   THEN <<Diag("Client Error", "Unable to get worksapce", "failure")>>
                   ELSE <<>>,
         workspaceId |-> IF r.err THEN "" ELSE workspace]

\* lines 436-440: a failed workspace lookup adds a diagnostic and execution goes on
ResolveWorkspace(workspace, wsFail) ==
    LET r == GetWorkspace(workspace, wsFail)
    IN  [calls |-> <<Call("GetWorkspace", workspace, "")>>,
         diags |-> IF r.err
                   THEN <<Diag("Client Error", "Unable to get worksapce", "failure")>>
                   ELSE <<>>,
         workspaceId |-> IF r.err THEN "" ELSE r.ws.Id]

\* what Create logs: every create call is preceded by tflog.Debug of its options
\* (lines 451, 475, 504), and tflog.Trace (line 519) runs on the path that sets the state
CreateLog(data, workspaceId, out) ==
    [i \in 1..Cardinality({j \in 1..Len(out.calls) : out.calls[j].fn \in CreateCalls}) |->
        LogEntry("debug", "create repository with option",
                 [opts |-> out.calls[CHOOSE j \in 1..Len(out.calls) :
                                        out.calls[j].fn \in CreateCalls].arg])]
    \o (IF out.stateSet
        THEN <<LogEntry("trace", "created a repoflow repository resource",
                        [repository_id |-> out.rp.val.Id,
                         package_type |-> ValueString(data.PackageType),
                         repository_type |-> ValueString(data.RepositoryType),
                         workspace_id |-> workspaceId,
                         id |-> Join(workspaceId, out.rp.val.Id)])>>
        ELSE <<>>)

\* the whole handler, for plan `data`; wsFail and crFail say whether the service fails
\* the workspace lookup and the create call, nid numbers the id the service assigns next
CreateHandler(data, wsFail, crFail, nid) ==
    LET workspace == ValueString(data.WorkspaceId)
        repositoryType == ValueString(data.RepositoryType)
        w == ResolveWorkspace(workspace, wsFail)
        out ==
          CASE repositoryType = "local" ->
               CreateLocalCase(data, workspace, w.workspaceId, w.calls, w.diags, crFail, nid)
          [] repositoryType = "remote" ->
               CreateRemoteCase(data, workspace, w.workspaceId, w.calls, w.diags, crFail, nid)
          [] repositoryType = "virtual" ->
               CreateVirtualCase(data, workspace, w.workspaceId, w.calls, w.diags, crFail, nid)
          [] OTHER ->
               \* no case of the switch matches: err and rp stay nil
               CreateFinish(data, w.workspaceId, w.calls, w.diags, [err |-> FALSE, rp |-> Nil])
    IN  [out EXCEPT !.logs = CreateLog(data, w.workspaceId, out)]

(***************************************************************************)
(* RepositoryResource.Read, Update, Delete, ImportState                    *)
(***************************************************************************)
\* Read's resp.State.Set is commented out: the response keeps the prior state
ReadSavesState == FALSE

ReadHandler(data, getFail, rem) ==
    LET workspaceId == ValueString(data.WorkspaceId)
        repositoryId == ValueString(data.RepositoryId)
        calls == <<Call("GetRepository", workspaceId, repositoryId)>>
        res == GetRepository(workspaceId, repositoryId, getFail, rem)
    IN  IF res.err # ""
        THEN Outcome(calls, <<Diag("Client Error", "Unable to get repository", res.err)>>,
                     "returned", FALSE, data, Nil)
        ELSE Outcome(calls, <<>>, "returned", ReadSavesState,
                     mapResponseToModel(data, res.rp.val, ValueString(data.WorkspaceId)),
                     res.rp)

\* an Update that does not write the plan to the state
UpdateHandlerNoSet(plan) == Outcome(<<>>, <<>>, "returned", FALSE, plan, Nil)

UpdateHandler(plan) == Outcome(<<>>, <<>>, "returned", TRUE, plan, Nil)

\* a Delete that drops the state whatever DeleteRepository returned
DeleteHandlerIgnoreErr(data, delFail, rem) ==
    LET workspaceId == ValueString(data.WorkspaceId)
        repositoryId == ValueString(data.RepositoryId)
        calls == <<Call("DeleteRepository", workspaceId, repositoryId)>>
    IN  [Outcome(calls, <<>>, "returned", FALSE, data, Nil) EXCEPT !.stateRemoved = TRUE]

\* a Delete that returns without error makes the framework drop the state
DeleteHandler(data, delFail, rem) ==
    LET workspaceId == ValueString(data.WorkspaceId)
        repositoryId == ValueString(data.RepositoryId)
        calls == <<Call("DeleteRepository", workspaceId, repositoryId)>>
        res == DeleteRepository(workspaceId, repositoryId, delFail, rem)
    IN  IF res.err # ""
        THEN Outcome(calls, <<Diag("Client Error", "Unable to delete repository", res.err)>>,
                     "returned", FALSE, data, Nil)
        ELSE [Outcome(calls, <<>>, "returned", FALSE, data, Nil)
                 EXCEPT !.stateRemoved = TRUE]

\* strings.Split(s, "/")
RECURSIVE SplitFrom(_, _, _)
SplitFrom(s, i, start) ==
    IF i > Len(s) THEN <<SubSeq(s, start, Len(s))>>
    ELSE IF SubSeq(s, i, i) = "/"
         THEN <<SubSeq(s, start, i - 1)>> \o SplitFrom(s, i + 1, i + 1)
         ELSE SplitFrom(s, i + 1, start)

Split(s) == SplitFrom(s, 1, 1)

\* line 615 with only the test of the number of parts
MalformedIdLenOnly(idParts) == Len(idParts) # 2

\* line 615: the test that rejects the import id
MalformedId(idParts) == Len(idParts) # 2 \/ idParts[1] = "" \/ idParts[2] = ""

ImportStateHandler(id, wsFail, getFail, rem) ==
    LET idParts == Split(id)
    IN  IF MalformedId(idParts)
        THEN Outcome(<<>>, <<Diag("Fail to import data", "Id use format", "")>>,
                     "returned", FALSE, ZeroModel, Nil)
        ELSE LET workspace == idParts[1]
                 repository == idParts[2]
                 w == ResolveWorkspace(workspace, wsFail)
                 calls == Append(w.calls, Call("GetRepository", w.workspaceId, repository))
                 res == GetRepository(w.workspaceId, repository, getFail, rem)
             IN  IF res.err # ""
                 THEN Outcome(calls,
                              Append(w.diags,
                                     Diag("Client Error", "Unable to import repository", res.err)),
                              "returned", FALSE, ZeroModel, Nil)
                 ELSE LET data == mapResponseToModel(ZeroModel, res.rp.val, w.workspaceId)
                      IN  IF HasError(w.diags)
                          THEN Outcome(calls, w.diags, "returned", FALSE, data, res.rp)
                          ELSE Outcome(calls, w.diags, "returned", TRUE, data, res.rp)

(***************************************************************************)
(* RepoflowProvider.Configure                                              *)
(***************************************************************************)
\* repoflow.NewClient(baseURL, apiKey)
NewClient(baseURL, apiKey) == [BaseURL |-> baseURL, ApiKey |-> apiKey]

\* data is the provider block, env the process environment; a missing value adds an
\* error and execution goes on to build the client
ConfigureHandler(data, env) ==
    LET baseURL == IF ~IsNull(data.BaseURL) THEN ValueString(data.BaseURL)
                   ELSE env.REPOFLOW_BASE_URL
        apiKey == IF ~IsNull(data.ApiKey) THEN ValueString(data.ApiKey)
                  ELSE env.REPOFLOW_API_KEY
    IN  [diags |->
             (IF baseURL = ""
              THEN <<Diag("Configuration Error", "base_url must be set", "")>> ELSE <<>>)
             \o (IF apiKey = ""
                 THEN <<Diag("Configuration Error", "api_key must be set", "")>> ELSE <<>>),
         client |-> NewClient(baseURL, apiKey)]

(***************************************************************************)
(* Inputs: the plans Terraform hands to Create.  Attributes that are        *)
(* Optional are null when not configured; attributes that are Optional and  *)
(* Computed are unknown when not configured (a null list is kept as an      *)
(* input as well, since Create tests for it).  Attributes of another        *)
(* variant are left unconfigured.                                           *)
(***************************************************************************)
WorkspaceRefs == {"w1", "example", "ghost"}
Names == {"n1", "n2"}
UrlValues == {StringNull, StringValue("https://u")}
UsernameValues == {StringNull}
PasswordValues == {StringValue("secret")}
TtlValues == {Int64Unknown}
ChildListValues ==
    {ListNull, ListUnknown, ListValue(<<>>), ListValue(<<"r1">>), ListValue(<<"r1", "r2">>)}
UploadValues == {StringUnknown, StringValue("r2")}

BasePlan(ws, type) ==
    [ZeroModel EXCEPT
        !.Name = StringValue("n1"), !.WorkspaceId = StringValue(ws),
        !.PackageType = StringValue("npm"), !.RepositoryType = StringValue(type),
        !.Id = StringUnknown, !.RepositoryId = StringUnknown,
        !.RemoteCacheEnabled = BoolValue(FALSE),
        !.FileCacheTimeTillRevalidation = Int64Unknown,
        !.MetadataCacheTimeTillRevalidation = Int64Unknown,
        !.ChildRepositoryIds = ListUnknown, !.UploadLocalRepositoryId = StringUnknown]

RemotePlans ==
    {[BasePlan(ws, "remote") EXCEPT
         !.RemoteRepositoryUrl = url, !.RemoteRepositoryUsername = user,
         !.RemoteRepositoryPassword = pass, !.FileCacheTimeTillRevalidation = ttl] :
       ws \in WorkspaceRefs, url \in UrlValues, user \in UsernameValues,
       pass \in PasswordValues, ttl \in TtlValues}

VirtualPlans ==
    {[BasePlan(ws, "virtual") EXCEPT
         !.ChildRepositoryIds = children, !.UploadLocalRepositoryId = upload] :
       ws \in WorkspaceRefs, children \in ChildListValues, upload \in UploadValues}

OtherPlans == {BasePlan(ws, type) : ws \in WorkspaceRefs, type \in {"local", "proxy"}}

Plans == RemotePlans \cup VirtualPlans \cup OtherPlans

\* the strings handed to ImportState
ImportIds ==
    {Join(ws, RepoId(n)) : ws \in WorkspaceRefs, n \in 1..MaxRepos}
        \cup {"", "/", "w1", "w1/", "/r1", "w1/r1/x", "w1//r1", "not-a-valid-id"}

\* the provider blocks and the environments Configure runs with
ProviderConfigs ==
    {[BaseURL |-> b, ApiKey |-> k] :
       b \in {StringNull, StringValue(""), StringValue("https://repoflow.example/api")},
       k \in {StringNull, StringValue("pat_xxx")}}

Environments ==
    {[REPOFLOW_BASE_URL |-> b, REPOFLOW_API_KEY |-> k] :
       b \in {"", "https://env.example/api"}, k \in {"", "pat_env"}}

(***************************************************************************)
(* State machine                                                           *)
(***************************************************************************)
NoState == [present |-> FALSE, data |-> ZeroModel]
State(data) == [present |-> TRUE, data |-> data]

NoOutcome == Outcome(<<>>, <<>>, "returned", FALSE, ZeroModel, Nil)

Invocation(op, plan, id, out) == [op |-> op, plan |-> plan, id |-> id, out |-> out]

\* what the engine can act on after a Read: the diagnostics' summaries and what
\* became of the state
ReadSignal(out) ==
    [summaries |-> [i \in 1..Len(out.diags) |-> out.diags[i].summary],
     stateSet |-> out.stateSet, stateRemoved |-> out.stateRemoved]

Init ==
    /\ remote = {}
    /\ nextId = 1
    /\ tfstate = NoState
    /\ last = Invocation("none", ZeroModel, "", NoOutcome)

\* the state the response of a handler leaves
StateAfter(prior, out) ==
    IF out.stateSet THEN State(out.data)
    ELSE IF out.stateRemoved THEN NoState
    ELSE prior

\* Terraform configures the provider before it calls a resource
Configure ==
    /\ last.op = "none"
    /\ \E data \in ProviderConfigs, env \in Environments :
         last' = [op |-> "Configure", config |-> data, env |-> env,
                  out |-> ConfigureHandler(data, env)]
    /\ UNCHANGED <<remote, nextId, tfstate>>

\* one invocation of Create with a plan of `plans`
CreateWith(plans) ==
    \E data \in plans, wsFail \in BOOLEAN, crFail \in BOOLEAN :
       LET out == CreateHandler(data, wsFail, crFail, nextId)
       IN  /\ remote' = IF out.rp.nil THEN remote ELSE remote \cup {out.rp.val}
           /\ nextId' = IF out.rp.nil THEN nextId ELSE nextId + 1
           /\ tfstate' = StateAfter(tfstate, out)
           /\ last' = Invocation("Create", data, "", out)

Create ==
    /\ tfstate = NoState
    /\ CreateWith(Plans)

Read ==
    /\ tfstate # NoState
    /\ \E getFail \in BOOLEAN :
         LET out == ReadHandler(tfstate.data, getFail, remote)
         IN  /\ tfstate' = StateAfter(tfstate, out)
             /\ last' = Invocation("Read", tfstate.data, "", out)
    /\ UNCHANGED <<remote, nextId>>

Update ==
    /\ tfstate # NoState
    /\ \E n \in Names :
         LET plan == [tfstate.data EXCEPT !.Name = StringValue(n)]
             out == UpdateHandler(plan)
         IN  /\ tfstate' = StateAfter(tfstate, out)
             /\ last' = Invocation("Update", plan, "", out)
    /\ UNCHANGED <<remote, nextId>>

Delete ==
    /\ tfstate # NoState
    /\ \E delFail \in BOOLEAN :
         LET data == tfstate.data
             out == DeleteHandler(data, delFail, remote)
             res == DeleteRepository(ValueString(data.WorkspaceId),
                                     ValueString(data.RepositoryId), delFail, remote)
         IN  /\ remote' = remote \ res.removed
             /\ tfstate' = StateAfter(tfstate, out)
             /\ last' = Invocation("Delete", data, "", out)
    /\ UNCHANGED nextId

ImportState ==
    /\ tfstate = NoState
    /\ \E id \in ImportIds, wsFail \in BOOLEAN, getFail \in BOOLEAN :
         LET out == ImportStateHandler(id, wsFail, getFail, remote)
         IN  /\ tfstate' = StateAfter(tfstate, out)
             /\ last' = Invocation("ImportState", ZeroModel, id, out)
    /\ UNCHANGED <<remote, nextId>>

\* the environment: somebody renames a repository on the remote side
RemoteRename ==
    /\ \E r \in remote, n \in Names :
         /\ r.Name # n
         /\ remote' = (remote \ {r}) \cup {[r EXCEPT !.Name = n]}
    /\ last' = Invocation("RemoteRename", ZeroModel, "", NoOutcome)
    /\ UNCHANGED <<nextId, tfstate>>

\* the environment: the operator makes Terraform forget the resource
\* (terraform state rm); the remote side is not touched
StateRm ==
    /\ tfstate # NoState
    /\ tfstate' = NoState
    /\ last' = Invocation("StateRm", ZeroModel, "", NoOutcome)
    /\ UNCHANGED <<remote, nextId>>

\* the operator makes Terraform forget the resource and imports it again by the id the
\* state held: StateRm and ImportState of that id in one step
Reimport ==
    /\ tfstate # NoState
    /\ \E wsFail \in BOOLEAN, getFail \in BOOLEAN :
         LET id == ValueString(tfstate.data.Id)
             out == ImportStateHandler(id, wsFail, getFail, remote)
         IN  /\ tfstate' = StateAfter(NoState, out)
             /\ last' = Invocation("ImportState", ZeroModel, id, out)
    /\ UNCHANGED <<remote, nextId>>

Next ==
    \/ Configure \/ Create \/ Read \/ Update \/ Delete \/ ImportState
    \/ RemoteRename \/ StateRm \/ Reimport

Spec == Init /\ [][Next]_vars

(***************************************************************************)
(* Properties                                                              *)
(***************************************************************************)
HasDiag(out, summary) == \E i \in 1..Len(out.diags) : out.diags[i].summary = summary

HasDetail(out, detail) == \E i \in 1..Len(out.diags) : out.diags[i].detail = detail

\* the positions of the create calls among the gateway calls of an invocation
CreateCallsIn(out) == {i \in 1..Len(out.calls) : out.calls[i].fn \in CreateCalls}

\* the invocation reported an error to the engine
ReportsError(out) == HasError(out.diags) \/ out.exit = "panicked"

PlanType(inv) == ValueString(inv.plan.RepositoryType)

\* the variant-required field is absent from the plan of a Create
RequiredFieldAbsent(inv) ==
    \/ PlanType(inv) = "remote" /\ IsNull(inv.plan.RemoteRepositoryUrl)
    \/ PlanType(inv) = "virtual" /\ IsNull(inv.plan.ChildRepositoryIds)

\* Create ended with a validation failure
ValidationFailed(inv) ==
    inv.op = "Create" /\ (RequiredFieldAbsent(inv) \/ HasDiag(inv.out, "Missing parameter"))

\* C1: whenever Create ends with a validation failure (a remote plan without
\* remote_repository_url, a virtual plan without child_repository_ids), the invocation
\* issued no create call and the step left the remote set of repositories unchanged.
C1_ValidationBeforeMutation ==
    [][ValidationFailed(last') =>
          /\ CreateCallsIn(last'.out) = {}
          /\ HasDiag(last'.out, "Missing parameter")
          /\ remote' = remote]_vars

\* C1 witness: a Create that failed validation while the remote side holds a repository
C1_Witness ==
    /\ ValidationFailed(last)
    /\ HasDiag(last.out, "Missing parameter")
    /\ remote # {}

\* C2 (as claimed): an invocation that reports an error writes no state record.
C2_ErrorWritesNoState ==
    (last.op \in {"Create", "Read", "Update", "Delete", "ImportState"}
        /\ ReportsError(last.out))
    => ~last.out.stateSet

\* C3 (as claimed): Create looks the workspace up first, issues its create call after
\* that, and issues no create call at all when the workspace lookup failed.
C3_ResolveFailureEndsCreate ==
    last.op = "Create" =>
        /\ last.out.calls[1].fn = "GetWorkspace"
        /\ \A i \in CreateCallsIn(last.out) : i > 1
        /\ HasDetail(last.out, "Unable to get worksapce") => CreateCallsIn(last.out) = {}

\* a virtual plan whose child_repository_ids is not set
VirtualWithoutChildren(inv) ==
    inv.op = "Create" /\ PlanType(inv) = "virtual" /\ IsNull(inv.plan.ChildRepositoryIds)

C5_EmptyChildrenRejected ==
    (last.op = "Create" /\ PlanType(last) = "virtual"
        /\ (IsNull(last.plan.ChildRepositoryIds)
              \/ last.plan.ChildRepositoryIds = ListValue(<<>>)))
    => /\ HasDetail(last.out, "child_repository_ids")
       /\ CreateCallsIn(last.out) = {}

\* upload_local_repository_id is set in the plan
UploadSet(inv) == inv.plan.UploadLocalRepositoryId.state = "known"

UploadIsChild(inv) ==
    \E i \in 1..Len(inv.plan.ChildRepositoryIds.value) :
        inv.plan.ChildRepositoryIds.value[i] = ValueString(inv.plan.UploadLocalRepositoryId)

\* C6 (as claimed): a virtual plan whose upload_local_repository_id is set but is not
\* one of child_repository_ids is rejected with an error before any create call.
C6_UploadTargetMustBeChild ==
    (last.op = "Create" /\ PlanType(last) = "virtual"
        /\ last.plan.ChildRepositoryIds.state = "known"
        /\ UploadSet(last) /\ ~UploadIsChild(last))
    => /\ CreateCallsIn(last.out) = {}
       /\ ReportsError(last.out)

\* C7: variant validation rejects a plan exactly when its variant-required field is
\* absent: a remote plan iff remote_repository_url is null, a virtual plan iff
\* child_repository_ids is null, a local plan never.
C7_RejectsIffRequiredAbsent ==
    last.op = "Create" =>
        /\ PlanType(last) = "remote" =>
              (HasDetail(last.out, "remote_repository_url")
                  <=> IsNull(last.plan.RemoteRepositoryUrl))
        /\ PlanType(last) = "virtual" =>
              (HasDetail(last.out, "child_repository_ids")
                  <=> IsNull(last.plan.ChildRepositoryIds))
        /\ HasDiag(last.out, "Missing parameter") <=> RequiredFieldAbsent(last)

\* C7 witness: a remote plan without url was rejected
C7_Witness ==
    /\ last.op = "Create"
    /\ PlanType(last) = "remote"
    /\ IsNull(last.plan.RemoteRepositoryUrl)
    /\ HasDetail(last.out, "remote_repository_url")

\* C8 (as claimed): Create with a repository_type outside local, remote, virtual returns
\* with an error, issues no create call, persists no state and does not go on to map a
\* missing gateway response.
C8_UnknownVariantIsAnError ==
    (last.op = "Create" /\ PlanType(last) \notin {"local", "remote", "virtual"})
    => /\ last.out.exit = "returned"
       /\ HasError(last.out.diags)
       /\ CreateCallsIn(last.out) = {}
       /\ ~last.out.stateSet

\* C9 (as claimed): after a successful Read the state is the mapping of the record
\* GetRepository returned.
C9_ReadStoresRemoteRecord ==
    (last.op = "Read" /\ ~ReportsError(last.out))
    => /\ tfstate.present
       /\ tfstate.data =
            mapResponseToModel(last.plan, last.out.rp.val, ValueString(last.plan.WorkspaceId))

\* C10 (as claimed): what Read hands back when GetRepository reports not-found differs
\* from what it hands back, for the same prior state, on any other gateway failure.
C10_NotFoundIsDistinct ==
    (last.op = "Read" /\ HasError(last.out.diags) /\ last.out.diags[1].err = "notfound")
    => ReadSignal(last.out) # ReadSignal(ReadHandler(last.plan, TRUE, remote))

\* C11: Update is a structural no-op: for every planned state, an Update step issues no
\* gateway call and reports nothing, leaves every remote record as it was, and the state
\* persisted after it is exactly the planned state.
C11_UpdateIsNoOp ==
    [][last'.op = "Update" =>
          /\ last'.out.calls = <<>>
          /\ last'.out.diags = <<>>
          /\ remote' = remote
          /\ tfstate' = State(last'.plan)]_vars

\* C11 witness: an Update whose plan renamed the repository has been persisted while the
\* remote record still carries the other name
C11_Witness ==
    /\ last.op = "Update"
    /\ tfstate = State(last.plan)
    /\ \E r \in remote :
         /\ r.Id = ValueString(last.plan.RepositoryId)
         /\ r.Name # ValueString(last.plan.Name)

\* the number of "/" in s
SlashCount(s) == Cardinality({i \in 1..Len(s) : SubSeq(s, i, i) = "/"})

\* s is two non-empty segments separated by exactly one "/"
TwoSegments(s) ==
    /\ SlashCount(s) = 1
    /\ SubSeq(s, 1, 1) # "/"
    /\ SubSeq(s, Len(s), Len(s)) # "/"

\* the part of s before its first "/"
FirstSegment(s) ==
    SubSeq(s, 1, (CHOOSE i \in 1..Len(s) :
                     SubSeq(s, i, i) = "/" /\ \A j \in 1..(i - 1) : SubSeq(s, j, j) # "/") - 1)

\* C12: ImportState fails with the invalid-format error, having made no gateway call and
\* written no state, exactly when its input is not two non-empty segments separated by
\* exactly one "/"; every other input goes on to the workspace lookup of its first segment.
C12_ImportRejectsMalformedIds ==
    last.op = "ImportState" =>
        /\ HasDiag(last.out, "Fail to import data") <=> ~TwoSegments(last.id)
        /\ ~TwoSegments(last.id) =>
              /\ last.out.calls = <<>>
              /\ ~last.out.stateSet
              /\ tfstate = NoState
        /\ TwoSegments(last.id) =>
              /\ Len(last.out.calls) >= 1
              /\ last.out.calls[1] = Call("GetWorkspace", FirstSegment(last.id), "")

\* C12 witness: an id with an empty second segment was rejected although the repository
\* it would name exists
C12_Witness ==
    /\ last.op = "ImportState"
    /\ last.id = "w1/"
    /\ HasDiag(last.out, "Fail to import data")
    /\ last.out.calls = <<>>
    /\ remote # {}

\* the positions of the GetRepository calls among the gateway calls of an invocation
GetCallsIn(out) == {i \in 1..Len(out.calls) : out.calls[i].fn = "GetRepository"}

\* C13 (as claimed): ImportState looks the workspace up before it gets the repository,
\* addresses GetRepository with the id the lookup resolved, and issues no GetRepository
\* at all when the workspace lookup failed.
C13_GetOnlyAfterResolve ==
    last.op = "ImportState" =>
        /\ \A i \in GetCallsIn(last.out) :
              /\ i > 1
              /\ last.out.calls[1].fn = "GetWorkspace"
              /\ \E w \in WorkspaceOf(last.out.calls[1].workspace) :
                    last.out.calls[i].workspace = w.Id
        /\ HasDetail(last.out, "Unable to get worksapce") => GetCallsIn(last.out) = {}

\* the workspace reference an invocation of Create or ImportState resolves
WorkspaceRefOf(inv) ==
    IF inv.op = "Create" THEN ValueString(inv.plan.WorkspaceId) ELSE FirstSegment(inv.id)

\* C14 (as claimed): in every state record persisted by Create or ImportState the
\* composite id is W + "/" + R, where W is the non-empty id the workspace lookup returned
\* and R the non-empty id the remote side assigned, and the workspace id and repository
\* id attributes equal W and R.
C14_PersistedIdIsComposite ==
    (last.op \in {"Create", "ImportState"} /\ last.out.stateSet) =>
        /\ tfstate.present
        /\ ~last.out.rp.nil
        /\ \E w \in WorkspaceOf(WorkspaceRefOf(last)) :
              LET W == w.Id
                  R == last.out.rp.val.Id
              IN  /\ W # "" /\ R # ""
                  /\ tfstate.data.Id = StringValue(W \o "/" \o R)
                  /\ tfstate.data.WorkspaceId = StringValue(W)
                  /\ tfstate.data.RepositoryId = StringValue(R)

\* the part of s after its first "/"
RestSegment(s) == SubSeq(s, Len(FirstSegment(s)) + 2, Len(s))

\* C15: a Delete step issues exactly one gateway call, DeleteRepository, addressed with
\* the (workspace id, repository id) pair the stored composite id decodes to, whatever
\* sequence of Create, ImportState, Read and Update produced the state; when that call
\* removes nothing (it failed), Delete reports an error and the state record is kept.
C15_DeleteAddressesStoredId ==
    [][last'.op = "Delete" =>
          /\ last'.out.calls =
                <<Call("DeleteRepository", FirstSegment(ValueString(tfstate.data.Id)),
                       RestSegment(ValueString(tfstate.data.Id)))>>
          /\ remote' = remote =>
                /\ HasError(last'.out.diags)
                /\ ~last'.out.stateRemoved
                /\ tfstate' = tfstate
          /\ remote' # remote =>
                remote \ remote' =
                    {r \in remote : r.Id = RestSegment(ValueString(tfstate.data.Id))}]_vars

\* C15 witness: DeleteRepository failed for a repository that exists; the error was
\* reported and the state still names the repository
C15_Witness ==
    /\ last.op = "Delete"
    /\ HasDetail(last.out, "Unable to delete repository")
    /\ last.out.diags[1].err = "failure"
    /\ tfstate.present
    /\ \E r \in remote : tfstate.data.Id = StringValue(Join("w1", r.Id))

\* the strings one log entry carries
LogStrings(entry) ==
    IF entry.level = "debug"
    THEN LET opts == entry.fields.opts
         IN  {opts.Name, opts.PackageType}
               \cup (IF "RemoteRepositoryUrl" \in DOMAIN opts
                     THEN {opts.RemoteRepositoryUrl, opts.RemoteRepositoryUsername,
                           opts.RemoteRepositoryPassword}
                     ELSE {})
               \cup (IF "UploadLocalRepositoryId" \in DOMAIN opts
                     THEN {opts.UploadLocalRepositoryId}
                            \cup {opts.ChildRepositoryIds[i] :
                                    i \in 1..Len(opts.ChildRepositoryIds)}
                     ELSE {})
    ELSE {entry.fields.repository_id, entry.fields.package_type,
          entry.fields.repository_type, entry.fields.workspace_id, entry.fields.id}

\* C16 (as claimed): no log entry of a Create carries the remote password of its plan.
C16_PasswordNotLogged ==
    (last.op = "Create" /\ last.plan.RemoteRepositoryPassword.state = "known") =>
        \A i \in 1..Len(last.out.logs) :
            ValueString(last.plan.RemoteRepositoryPassword) \notin LogStrings(last.out.logs[i])

\* the default the provider's documentation gives for the base url
DefaultBaseURL == "https://127.0.0.1/api"

\* C20 (as claimed): the client's base url is the base_url of the provider block when it
\* is set, else the value of REPOFLOW_BASE_URL when that is set, else the default
\* https://127.0.0.1/api; so a configuration with neither set raises no base_url error.
C20_BaseUrlFallsBackToDefault ==
    last.op = "Configure" =>
        /\ last.out.client.BaseURL =
              (IF ~IsNull(last.config.BaseURL) THEN ValueString(last.config.BaseURL)
               ELSE IF last.env.REPOFLOW_BASE_URL # "" THEN last.env.REPOFLOW_BASE_URL
               ELSE DefaultBaseURL)
        /\ (IsNull(last.config.BaseURL) /\ last.env.REPOFLOW_BASE_URL = "")
              => ~HasDetail(last.out, "base_url must be set")

(***************************************************************************)
(* The field mapping on its own: the service holds one repository record   *)
(* of any shape it may answer with (or none), Terraform holds no state.     *)
(* ImportState and Read map the record to a state; Create is called with    *)
(* remote plans that set the cache times, and with the mapped state itself  *)
(* as the plan (the resource is replaced from what was mapped).             *)
(***************************************************************************)
\* the records GetRepository may answer with: an empty packageType or repositoryType,
\* absent or present optional fields
GatewayRecords ==
    {[NoRepository EXCEPT !.Id = RepoId(1), !.Name = "n1",
                          !.PackageType = p, !.RepositoryType = t] :
       p \in {"", "npm"}, t \in {"", "local"}}
    \cup
    {[NoRepository EXCEPT !.Id = RepoId(1), !.Name = "n1", !.PackageType = "npm",
                          !.RepositoryType = "remote",
                          !.RemoteRepositoryUrl = url, !.RemoteRepositoryUsername = user,
                          !.RemoteRepositoryPassword = pass,
                          !.FileCacheTimeTillRevalidation = fttl,
                          !.MetadataCacheTimeTillRevalidation = mttl] :
       url \in {Nil, Ptr("https://u")}, user \in {Nil, Ptr("user")},
       pass \in {Nil, Ptr("secret")}, fttl \in {Nil, Ptr(0), Ptr(5)}, mttl \in {Nil, Ptr(0)}}
    \cup
    {[NoRepository EXCEPT !.Id = RepoId(1), !.Name = "n1", !.PackageType = "npm",
                          !.RepositoryType = "virtual",
                          !.UploadLocalRepositoryId = upload, !.ChildRepositories = children] :
       upload \in {Nil, Ptr("r2")},
       children \in {Nil, Ptr(<<>>), Ptr(<<[Id |-> "r2"]>>),
                     Ptr(<<[Id |-> "r2"], [Id |-> "r3"]>>)}}

\* remote plans that set the credentials and the cache times
WidePlans ==
    {[BasePlan("w1", "remote") EXCEPT
         !.RemoteRepositoryUrl = StringValue("https://u"),
         !.RemoteRepositoryUsername = user, !.RemoteRepositoryPassword = pass,
         !.FileCacheTimeTillRevalidation = fttl,
         !.MetadataCacheTimeTillRevalidation = mttl] :
       user \in {StringNull, StringValue("user")},
       pass \in {StringNull, StringValue("secret")},
       fttl \in {Int64Unknown, Int64Value(0), Int64Value(5)},
       mttl \in {Int64Unknown, Int64Value(0)}}

\* virtual plans whose list of children repeats an id or is not in the order of the ids
ChildListPlans ==
    {[BasePlan("w1", "virtual") EXCEPT !.ChildRepositoryIds = ListValue(children)] :
       children \in {<<"r2", "r2">>, <<"r3", "r2">>, <<"r2", "r3", "r2">>}}

MapInit ==
    /\ remote \in {{}} \cup {{r} : r \in GatewayRecords}
    /\ nextId = Cardinality(remote) + 1
    /\ tfstate = NoState
    /\ last = Invocation("none", ZeroModel, "", NoOutcome)

\* Create of a remote or virtual repository on a service that holds none
CreateWide ==
    /\ tfstate = NoState
    /\ remote = {}
    /\ CreateWith(WidePlans \cup ChildListPlans)

\* Create with the stored state as its plan
Recreate ==
    /\ tfstate # NoState
    /\ CreateWith({tfstate.data})

MapNext == ImportState \/ Read \/ CreateWide \/ Recreate

MapSpec == MapInit /\ [][MapNext]_vars

\* the handler of the invocation mapped a gateway record to a model
MappingRan(inv) ==
    /\ inv.op \in {"Create", "Read", "ImportState"}
    /\ inv.out.exit = "returned"
    /\ ~inv.out.rp.nil

\* the model the mapping started from
PriorModel(inv) == IF inv.op = "ImportState" THEN ZeroModel ELSE inv.plan

\* C17 (as claimed): the mapping leaves packageType as it was when the remote packageType
\* is empty and sets it otherwise, and likewise repositoryType from the remote
\* repositoryType: each field is decided by its own remote value.
C17_TypeFieldsGuardedSeparately ==
    MappingRan(last) =>
        LET rp == last.out.rp.val
            prior == PriorModel(last)
        IN  /\ last.out.data.PackageType =
                  (IF rp.PackageType = "" THEN prior.PackageType
                   ELSE StringValue(rp.PackageType))
            /\ last.out.data.RepositoryType =
                  (IF rp.RepositoryType = "" THEN prior.RepositoryType
                   ELSE StringValue(rp.RepositoryType))

TtlFields == {"FileCacheTimeTillRevalidation", "MetadataCacheTimeTillRevalidation"}

\* the options of the create call of an invocation that made one
CreateOptsOf(out) == out.calls[CHOOSE i \in CreateCallsIn(out) : TRUE].arg

\* C18: a cache time that is not set is sent to CreateRemoteRepository as absent and a
\* cache time of 0 as 0; an absent remote cache time is mapped to null and a remote 0 to
\* 0, never to null; so a successful Create stores null for a cache time that was not set
\* and 0 for one set to 0.
C18_NullTtlRoundTrip ==
    /\ (last.op = "Create" /\ PlanType(last) = "remote" /\ CreateCallsIn(last.out) # {}) =>
          \A f \in TtlFields :
              /\ CreateOptsOf(last.out)[f] =
                    (IF last.plan[f].state = "known" THEN Ptr(last.plan[f].value) ELSE Nil)
              /\ last.out.stateSet =>
                    tfstate.data[f] =
                        (IF last.plan[f].state = "known" THEN Int64Value(last.plan[f].value)
                         ELSE Int64Null)
    /\ MappingRan(last) =>
          \A f \in TtlFields :
              last.out.data[f] =
                  (IF last.out.rp.val[f].nil THEN Int64Null
                   ELSE Int64Value(last.out.rp.val[f].val))

\* C18 witness: a Create whose plan set one cache time to 0 and left the other unset
\* stored 0 for the first and null for the second
C18_Witness ==
    /\ last.op = "Create"
    /\ last.plan.FileCacheTimeTillRevalidation = Int64Value(0)
    /\ last.plan.MetadataCacheTimeTillRevalidation = Int64Unknown
    /\ CreateOptsOf(last.out).FileCacheTimeTillRevalidation = Ptr(0)
    /\ CreateOptsOf(last.out).MetadataCacheTimeTillRevalidation = Nil
    /\ tfstate.present
    /\ tfstate.data.FileCacheTimeTillRevalidation = Int64Value(0)
    /\ tfstate.data.MetadataCacheTimeTillRevalidation = Int64Null

\* the create request `call` carries the fields of the record r: an optional string of r
\* that is absent must not be carried as a value
RequestEquals(call, r) ==
    LET opts == call.arg
    IN  /\ opts.Name = r.Name
        /\ opts.PackageType = r.PackageType
        /\ CASE r.RepositoryType = "local" -> call.fn = "CreateLocalRepository"
             [] r.RepositoryType = "remote" ->
                  /\ call.fn = "CreateRemoteRepository"
                  /\ Ptr(opts.RemoteRepositoryUrl) = r.RemoteRepositoryUrl
                  /\ Ptr(opts.RemoteRepositoryUsername) = r.RemoteRepositoryUsername
                  /\ Ptr(opts.RemoteRepositoryPassword) = r.RemoteRepositoryPassword
                  /\ opts.IsRemoteCacheEnabled = r.IsRemoteCacheEnabled
                  /\ opts.FileCacheTimeTillRevalidation = r.FileCacheTimeTillRevalidation
                  /\ opts.MetadataCacheTimeTillRevalidation
                        = r.MetadataCacheTimeTillRevalidation
             [] r.RepositoryType = "virtual" ->
                  /\ call.fn = "CreateVirtualRepository"
                  /\ ~r.ChildRepositories.nil
                  /\ ListValue(opts.ChildRepositoryIds) = ChildIdsOf(r.ChildRepositories)
                  /\ Ptr(opts.UploadLocalRepositoryId) = r.UploadLocalRepositoryId
             [] OTHER -> FALSE

\* C19 (as claimed): when Create is called with the state obtained by mapping a remote
\* record r and the workspace lookup succeeds, it issues a create request whose fields
\* equal those of r, the absent optional fields of r being absent from the request.
C19_MappingRoundTrip ==
    [][\A r \in remote :
          (/\ last'.op = "Create"
           /\ ~HasDetail(last'.out, "Unable to get worksapce")
           /\ tfstate.present
           /\ last'.plan = tfstate.data
           /\ r.Id = ValueString(tfstate.data.RepositoryId)
           /\ tfstate.data =
                 mapResponseToModel(ZeroModel, r, ValueString(tfstate.data.WorkspaceId)))
          => /\ CreateCallsIn(last'.out) # {}
             /\ RequestEquals(last'.out.calls[CHOOSE i \in CreateCallsIn(last'.out) : TRUE],
                              r)]_vars

\* C21: the mapping projects the remote list of child repositories to the list of their
\* ids, index by index: same length, same order; a remote list that is empty but not
\* absent gives an empty list that is not null, an absent remote list gives a null list.
C21_ChildListProjection ==
    MappingRan(last) =>
        LET children == last.out.rp.val.ChildRepositories
            ids == last.out.data.ChildRepositoryIds
        IN  /\ children.nil => ids = ListNull
            /\ ~children.nil =>
                  /\ ids.state = "known"
                  /\ Len(ids.value) = Len(children.val)
                  /\ \A i \in 1..Len(children.val) : ids.value[i] = children.val[i].Id

\* C21 witness: a record with two children was imported and the state lists their ids
\* in the remote order
C21_Witness ==
    /\ last.op = "ImportState"
    /\ last.out.stateSet
    /\ last.out.rp.val.ChildRepositories = Ptr(<<[Id |-> "r2"], [Id |-> "r3"]>>)
    /\ tfstate.data.ChildRepositoryIds = ListValue(<<"r2", "r3">>)

\* no value occurs at two positions of the sequence s
NoDuplicates(s) == \A i, j \in 1..Len(s) : s[i] = s[j] => i = j

\* the positions of the CreateVirtualRepository calls of an invocation
VirtualCallsIn(out) ==
    {i \in 1..Len(out.calls) : out.calls[i].fn = "CreateVirtualRepository"}

\* C22 (as claimed): the list of child ids Create hands to CreateVirtualRepository is the
\* list of the plan in its order, and no id occurs in it twice.
C22_ChildIdsUniqueInOrder ==
    last.op = "Create" =>
        \A i \in VirtualCallsIn(last.out) :
            /\ last.out.calls[i].arg.ChildRepositoryIds = last.plan.ChildRepositoryIds.value
            /\ NoDuplicates(last.out.calls[i].arg.ChildRepositoryIds)

\* the create call that belongs to a repository type
CreateCallFor(type) ==
    CASE type = "local" -> "CreateLocalRepository"
      [] type = "remote" -> "CreateRemoteRepository"
      [] type = "virtual" -> "CreateVirtualRepository"
      [] OTHER -> "none"

\* C23: every Create issues at most one create call, and only of the kind that belongs to
\* the repository_type of its plan; a create call that failed (the service returned no
\* repository) is not repeated, and Create then returns an error and persists no state.
C23_SingleDispatchNoRetry ==
    last.op = "Create" =>
        /\ Cardinality(CreateCallsIn(last.out)) <= 1
        /\ \A i \in CreateCallsIn(last.out) : last.out.calls[i].fn = CreateCallFor(PlanType(last))
        /\ (CreateCallsIn(last.out) # {} /\ last.out.rp.nil) =>
              /\ HasDetail(last.out, "Unable to create repository")
              /\ last.out.exit = "returned"
              /\ ~last.out.stateSet
              /\ tfstate = NoState

\* C23 witness: the one CreateVirtualRepository call of a Create failed; the error was
\* reported and nothing was persisted
C23_Witness ==
    /\ last.op = "Create"
    /\ PlanType(last) = "virtual"
    /\ Cardinality(VirtualCallsIn(last.out)) = 1
    /\ last.out.diags = <<Diag("Client Error", "Unable to create repository", "failure")>>
    /\ tfstate = NoState

\* C24 (as claimed): when the workspace lookup of a Create succeeded, its create call is
\* addressed with the id the lookup returned, not with the reference the plan declares.
C24_CreateAddressedByResolvedId ==
    (last.op = "Create" /\ ~HasDetail(last.out, "Unable to get worksapce")) =>
        \A i \in CreateCallsIn(last.out) :
            \E w \in WorkspaceOf(ValueString(last.plan.WorkspaceId)) :
                last.out.calls[i].workspace = w.Id

\* C25: importing the composite id a successful Create has just persisted is a round
\* trip: ImportState accepts the id and, provided the workspace lookup resolves, looks up
\* the workspace and gets the repository by the workspace id and repository id Create
\* stored, can fail only where the service fails, and when it succeeds it fetched the
\* repository Create was answered with and persists the same composite id, workspace id
\* and repository id.
C25_ImportOfCreatedIdRoundTrip ==
    [][(/\ last.op = "Create"
        /\ last.out.stateSet
        /\ ~ReportsError(last.out)
        /\ last'.op = "ImportState"
        /\ last'.id = ValueString(tfstate.data.Id)
        /\ ~HasDetail(last'.out, "Unable to get worksapce"))
       => /\ ~HasDiag(last'.out, "Fail to import data")
          /\ last'.out.calls =
                <<Call("GetWorkspace", ValueString(tfstate.data.WorkspaceId), ""),
                  Call("GetRepository", ValueString(tfstate.data.WorkspaceId),
                       ValueString(tfstate.data.RepositoryId))>>
          /\ \A i \in 1..Len(last'.out.diags) : last'.out.diags[i].err = "failure"
          /\ ~HasError(last'.out.diags) =>
                /\ last'.out.rp = last.out.rp
                /\ tfstate'.present
                /\ tfstate'.data.Id = tfstate.data.Id
                /\ tfstate'.data.WorkspaceId = tfstate.data.WorkspaceId
                /\ tfstate'.data.RepositoryId = tfstate.data.RepositoryId]_vars

\* C25 witness: the composite id of a repository Create made was imported and the
\* import persisted that id, with its two halves as workspace id and repository id
C25_Witness ==
    /\ last.op = "ImportState"
    /\ last.id = "w1/r1"
    /\ ~HasError(last.out.diags)
    /\ tfstate.present
    /\ tfstate.data.Id = StringValue("w1/r1")
    /\ tfstate.data.WorkspaceId = StringValue("w1")
    /\ tfstate.data.RepositoryId = StringValue("r1")

\* C26: after a Create or ImportState that reported no error, the workspace attribute of
\* the persisted state is the id the workspace lookup resolved, whatever reference was
\* declared; it equals the declared reference only when the reference was that id.
C26_WorkspaceHoldsResolvedId ==
    (last.op \in {"Create", "ImportState"} /\ last.out.stateSet /\ ~ReportsError(last.out)) =>
        /\ tfstate.present
        /\ \E w \in WorkspaceOf(WorkspaceRefOf(last)) :
              /\ tfstate.data.WorkspaceId = StringValue(w.Id)
              /\ tfstate.data.WorkspaceId = StringValue(WorkspaceRefOf(last))
                    <=> WorkspaceRefOf(last) = w.Id

\* C26 witness: a repository declared in the workspace named "example" was created and
\* the state holds the workspace id "w1" instead
C26_Witness ==
    /\ last.op = "Create"
    /\ ~ReportsError(last.out)
    /\ last.plan.WorkspaceId = StringValue("example")
    /\ tfstate.present
    /\ tfstate.data.WorkspaceId = StringValue("w1")

====
